---- MODULE Spec2Model ----
(***************************************************************************)
(* Model of src/src/well_data_dashboard.py: the socket listener thread     *)
(* (dashboard_listener), the history file oil_well_history.json that it    *)
(* read-modify-writes, and the Streamlit script runs (file initialisation, *)
(* listener thread start, Start/Stop/Reset buttons, snapshot read for the  *)
(* display).                                                               *)
(***************************************************************************)
EXTENDS Integers, Sequences, FiniteSets, TLC

\* ------------------------------------------------------------------ bounds
MaxConns == 3        \* producer connections made during a run of the model
NumSessions == 2     \* browser sessions (each has its own st.session_state)
MaxRuns == 2         \* script runs over all sessions (each starts a thread)
NumChunks == 2       \* pieces in which a payload arrives
MaxBacklog == 2      \* established connections waiting for accept()
BigBatch == 999      \* size of the large batch a producer may send
LongRuns == 3        \* script runs where the buttons are followed further

\* ------------------------------------------------------- program constants
Capacity == 1000     \* history = history[:1000]

Conns == 1..MaxConns
Sessions == 1..NumSessions
\* every script run starts a thread (the threads beyond the runs that a
\* specification allows are never started)
Threads == 1..LongRuns

Min(a, b) == IF a < b THEN a ELSE b

\* --------------------------------------------------------------- JSON values
\* Every JSON value is a record of the same shape, so that any two compare:
\*   t     "obj" (an object without a well_data key), "wd" (an object with a
\*         well_data key), "arr", "num", "str"
\*   id    identity of an object / the number / the length of a string;
\*         an "obj" with id 0 is the empty object {}
\*   items the elements of an array; <<v>> for a "wd" whose well_data is v
Obj(i) == [t |-> "obj", id |-> i, items |-> <<>>]
Arr(s) == [t |-> "arr", id |-> 0, items |-> s]
Num(n) == [t |-> "num", id |-> n, items |-> <<>>]
Str(n) == [t |-> "str", id |-> n, items |-> <<>>]
WD(v) == [t |-> "wd", id |-> 0, items |-> <<v>>]

\* The k-th well record of producer c; producer 0 stands for records that
\* were persisted by earlier runs of the program.
Rid(c, k) == k * (MaxConns + 1) + c
R(c, k) == Obj(Rid(c, k))

\* The elements of a history are held by reference: a positive number is the
\* well record (JSON object) with that id, a negative number -n the n-th
\* nested array that an earlier version of the program persisted.
Ref(v) == v.id
Batch(c, n) == [k \in 1..n |-> Rid(c, k)]
Nested(n) == <<Rid(0, 1), Rid(0, 2)>>
IsNested(e) == e < 0

\* isinstance(x, dict) / isinstance(x, list)
IsDict(v) == v.t \in {"obj", "wd"}
IsList(v) == v.t = "arr"

\* ------------------------------------------------------------------ payloads
\* What a producer writes on its connection, by kind.
DocKinds ==
  {"single", "wd1", "list3", "wdnested", "empty", "garbage", "big",
   "wdobj", "mixed"}

\* json.loads of the complete text of a payload of the given kind
DocValue(kind, c) ==
  CASE kind = "single" -> R(c, 1)
    [] kind = "wd1" -> WD(Arr(<<R(c, 1)>>))
    [] kind = "list3" -> Arr(<<R(c, 1), R(c, 2), R(c, 3)>>)
    [] kind = "wdnested" -> WD(Arr(<<Arr(<<R(c, 1), R(c, 2)>>), R(c, 3)>>))
    [] kind = "empty" -> Arr(<<>>)
    [] kind = "big" -> Arr([k \in 1..BigBatch |-> R(c, k)])
    [] kind = "wdobj" -> WD(R(c, 1))
    [] kind = "mixed" -> Arr(<<R(c, 1), Num(7), R(c, 3)>>)
    [] OTHER -> Num(0)

\* json.loads(buffer) succeeds: the buffer holds a whole JSON document
\* (got counts the pieces received; a proper prefix of a document does not
\* parse, nor does text that is not JSON).
ParseOK(kind, got) == got = NumChunks /\ kind # "garbage"

\* lines 56-61: shape resolution; the result is the value bound to new_data
Resolve(data) ==
  IF IsDict(data) /\ data.t = "wd" THEN data.items[1]
  ELSE IF IsList(data) THEN data
  ELSE Arr(<<data>>)

\* line 63: len(new_data) is defined for lists, dicts and strings only
HasLen(v) == v.t \in {"arr", "obj", "wd", "str"}

\* What iterating new_data yields (lines 66 and 78): the elements of a list,
\* the keys of a dict (strings), the characters of a string.
Iter(v) ==
  CASE v.t = "arr" -> v.items
    [] v.t = "obj" -> IF v.id = 0 THEN <<>> ELSE <<Str(1)>>
    [] v.t = "wd" -> <<Str(1)>>
    [] v.t = "str" -> [i \in 1..v.id |-> Str(1)]
    [] OTHER -> <<>>

\* Variant of BatchOK: the elements of the batch are not looked at.
BatchAny(nd) == HasLen(nd)

\* line 66: record.get("forecast") raises AttributeError unless every record
\* is a dict; line 63 raises TypeError when new_data has no len().
BatchOK(nd) == HasLen(nd) /\ \A i \in 1..Len(Iter(nd)) : IsDict(Iter(nd)[i])

\* Variant of Decode: an empty buffer is given to json.loads as any other.
DecodeNoGuard(kind, c, got) ==
  IF ~ParseOK(kind, got) THEN [res |-> "rejected", batch |-> <<>>]
  ELSE IF ~BatchOK(Resolve(DocValue(kind, c)))
    THEN [res |-> "raised", batch |-> <<>>]
  ELSE LET records == Iter(Resolve(DocValue(kind, c)))
       IN [res |-> "batch", batch |-> [i \in DOMAIN records |-> Ref(records[i])]]

\* Variant of Decode: text that does not parse is taken for one well record.
DecodeLenient(kind, c, got) ==
  IF got = 0 THEN [res |-> "empty", batch |-> <<>>]
  ELSE IF ~ParseOK(kind, got) THEN [res |-> "batch", batch |-> <<Rid(c, 1)>>]
  ELSE IF ~BatchOK(Resolve(DocValue(kind, c)))
    THEN [res |-> "raised", batch |-> <<>>]
  ELSE LET records == Iter(Resolve(DocValue(kind, c)))
       IN [res |-> "batch", batch |-> [i \in DOMAIN records |-> Ref(records[i])]]

\* lines 51-68: what the handler does with the buffer once the read loop has
\* ended. "empty": nothing received; "rejected": json.JSONDecodeError (line
\* 87); "raised": another exception (line 89); "batch": go on to the merge.
Decode(kind, c, got) ==
  IF got = 0 THEN [res |-> "empty", batch |-> <<>>]
  ELSE IF ~ParseOK(kind, got) THEN [res |-> "rejected", batch |-> <<>>]
  ELSE IF ~BatchOK(Resolve(DocValue(kind, c)))
    THEN [res |-> "raised", batch |-> <<>>]
  ELSE LET records == Iter(Resolve(DocValue(kind, c)))
       IN [res |-> "batch", batch |-> [i \in DOMAIN records |-> Ref(records[i])]]

\* Variant of Prepend: the batch is put after the history.
PrependLast(new_data, history) == history \o new_data

\* line 78: history = [*new_data, *history]
Prepend(new_data, history) == new_data \o history

\* Variant of Truncate: one element more is kept.
TruncateLate(history) == SubSeq(history, 1, Min(Len(history), Capacity + 1))

\* line 81: history = history[:1000]
Truncate(history) == SubSeq(history, 1, Min(Len(history), Capacity))

\* Variant of Merge: the history is not cut.
MergeUncut(new_data, history) == Prepend(new_data, history)

\* lines 78-81
Merge(new_data, history) == Truncate(Prepend(new_data, history))

\* lines 182-187: one-level flattening of the loaded history (an entry that
\* is a list is replaced by its members)
\* (the loop over the entries is evaluated by halves)
RECURSIVE Flatten(_)
Flatten(data) ==
  IF data = <<>> THEN <<>>
  ELSE IF Len(data) = 1
    THEN IF IsNested(data[1]) THEN Nested(-data[1]) ELSE <<data[1]>>
  ELSE Flatten(SubSeq(data, 1, Len(data) \div 2))
         \o Flatten(SubSeq(data, Len(data) \div 2 + 1, Len(data)))

\* ------------------------------------------------------------ the history file
\* st: "absent", "complete" (a whole JSON array: content), "truncated" (zero
\* bytes, after open(.., "w")), "partial" (a proper prefix of the array that
\* writer is dumping: content), "garbage" (bytes of several writers mixed).
\* size orders the lengths of the texts: an array of n elements has size n+1.
AbsentFile == [st |-> "absent", content |-> <<>>, size |-> 0, writer |-> 0]
CompleteFile(h) ==
  [st |-> "complete", content |-> h, size |-> Len(h) + 1, writer |-> 0]
TruncatedFile == [st |-> "truncated", content |-> <<>>, size |-> 0, writer |-> 0]
GarbageFile(n) == [st |-> "garbage", content |-> <<>>, size |-> n, writer |-> 0]

\* open(history_file, "w"): creates or truncates
OpenForWrite(f) == TruncatedFile

\* A writer at offset 0 flushes the first k elements of its array h (the
\* buffered writer is full) over file f.
FlushPrefix(f, h, k, w) ==
  IF f.size <= k
    THEN [st |-> "partial", content |-> SubSeq(h, 1, k), size |-> k, writer |-> w]
    ELSE GarbageFile(f.size)

\* A writer that has flushed off elements of its array h writes the rest
\* and closes, over file f.  From offset 0 the array replaces f when it is at
\* least as long as f and otherwise overwrites only its head; from a later
\* offset it completes the writer's own prefix, and lands after a hole or in
\* foreign bytes when the file was truncated or rewritten in between.
WriteRest(f, h, off, w) ==
  IF off = 0
    THEN IF f.size <= Len(h) + 1 THEN CompleteFile(h) ELSE GarbageFile(f.size)
  ELSE IF f.st = "partial" /\ f.writer = w /\ f.size = off THEN CompleteFile(h)
  ELSE GarbageFile(IF f.size > Len(h) + 1 THEN f.size ELSE Len(h) + 1)

\* json.load(f) of the whole file succeeds
Loadable(f) == f.st = "complete"

\* offsets at which a dump of h may be flushed before it is closed
PrefixLens(h) == {k \in {1, Len(h) - 1} : 1 <= k /\ k < Len(h)}

\* ----------------------------------------------------------------- the state
VARIABLES
  file,        \* oil_well_history.json
  port,        \* the threads that hold a listening socket on port 9090
  backlog,     \* established connections not yet returned by accept()
  thr,         \* the dashboard_listener threads: position and locals
  nthreads,    \* threads started so far
  conns,       \* the producers' connections
  sess,        \* the sessions: st.session_state and the script run's position
  nruns,       \* script runs started so far
  file0,       \* history: which file there was when the program started
  wipes,       \* history: times a script run has truncated the file
  purged,      \* history: the producers whose records a reset has wiped
  mergedTotal, \* history: records of all merges written so far
  tally        \* history: counts of the handlers that have ended

vars ==
  <<file, port, backlog, thr, nthreads, conns, sess, nruns, file0, wipes,
    purged, mergedTotal, tally>>

\* the locals of a thread before it has run
NewThread ==
  [pc |-> "unborn", conn |-> 0, got |-> 0, new_data |-> <<>>,
   history |-> <<>>, off |-> 0]

\* st: "none", "queued" (established, not yet accepted), "closed" (the peer
\* wrote and closed or half-closed), "reset" (the peer wrote and the
\* connection was reset), "stalled" (the peer wrote and hangs: it neither
\* writes nor closes any more), "done" (the handler has ended and closed
\* it); sent: the pieces of a payload the peer wrote; kind: the payload, when
\* all its pieces were written.  What the peer does is independent of the
\* program, and is fixed in the model when the connection is accepted.
NewConn == [st |-> "none", kind |-> "none", sent |-> 0]
QueuedConn == [st |-> "queued", kind |-> "none", sent |-> 0]
DoneConn == [st |-> "done", kind |-> "none", sent |-> 0]

\* pc: the position of the session's script run; seen: the page was rendered
\* before (its buttons can be pressed); server_active, cleared: the entries
\* of st.session_state; view: what the display part of the page shows
NewSession ==
  [pc |-> "idle", seen |-> FALSE, server_active |-> FALSE, cleared |-> FALSE,
   view |-> "none"]

\* payloads that hold exactly one well record: a single object, and an
\* object with a one-element well_data list
SingleKinds == {"single", "wd1"}

\* History: what the handler of a connection received (cn: the connection,
\* got: the pieces in the buffer).  Text that is not JSON and was delivered
\* with a close; a whole single-record payload delivered with a close.
NotJson(cn, got) ==
  cn.st = "closed" /\ got > 0 /\ (cn.kind = "garbage" \/ got < NumChunks)
WholeSingle(cn, got) ==
  cn.st = "closed" /\ got = NumChunks /\ cn.kind \in SingleKinds
\* the peer closed without sending a byte
ZeroBytes(cn, got) == cn.st = "closed" /\ cn.sent = 0 /\ got = 0

\* The files an earlier run of the program may have left: none, an empty
\* history, a short history with a nested (legacy) entry.
InitFileNames == {"absent", "empty", "legacy"}
InitFile(name) ==
  CASE name = "absent" -> AbsentFile
    [] name = "empty" -> CompleteFile(<<>>)
    [] OTHER -> CompleteFile(<<-1, Rid(0, 3)>>)

InitOf(F) ==
  /\ file0 \in F
  /\ file = InitFile(file0)
  /\ port = {}
  /\ backlog = <<>>
  /\ thr = [t \in Threads |-> NewThread]
  /\ nthreads = 0
  /\ conns = [c \in Conns |-> NewConn]
  /\ sess = [s \in Sessions |-> NewSession]
  /\ nruns = 0
  /\ wipes = 0
  /\ purged = {}
  /\ mergedTotal = 0
  /\ tally = [handled |-> 0, singles |-> 0, invalid |-> 0, zero |-> 0]

\* the producers of the records of a history, nested entries included
ProducerOf(e) == e % (MaxConns + 1)
Producers(h) == LET flat == Flatten(h) IN {ProducerOf(flat[i]) : i \in DOMAIN flat}

\* ---------------------------------------------------------------- producers
\* What a producer does on its connection: it writes a whole payload, a
\* proper prefix of one, or nothing, and then closes; or the connection is
\* reset, or the producer hangs, before or after a whole payload was written.
\* K: the kinds of payload the producers write.
Whole(K) == {[st |-> "closed", kind |-> k, sent |-> NumChunks] : k \in K}
Broken ==
  {[st |-> "closed", kind |-> "none", sent |-> n] : n \in 0..(NumChunks - 1)}
    \cup {[st |-> e, kind |-> "single", sent |-> NumChunks] : e \in {"reset", "stalled"}}
    \cup {[st |-> e, kind |-> "none", sent |-> 0] : e \in {"reset", "stalled"}}
Deliveries(K) == Whole(K) \cup Broken

\* A producer connects (the port must be listening and the queue of
\* established connections not full).  Producers are numbered in the order
\* in which they connect.
Connect(c) ==
  /\ conns[c].st = "none"
  /\ port # {}
  /\ Len(backlog) < MaxBacklog
  /\ c > 1 => conns[c - 1].st # "none"
  /\ conns' = [conns EXCEPT ![c] = QueuedConn]
  /\ backlog' = Append(backlog, c)
  /\ UNCHANGED <<file, port, thr, nthreads, sess, nruns, file0, wipes, purged,
                 mergedTotal, tally>>

\* ------------------------------------------------- dashboard_listener threads
\* The handler of a connection ends (the with-block closes the connection)
\* and the thread is back at accept(); its locals are dead until reassigned.
Finish(t, how) ==
  LET c == thr[t].conn
  IN /\ thr' = [thr EXCEPT ![t] = [NewThread EXCEPT !.pc = "accept"]]
     /\ conns' = [conns EXCEPT ![c] = DoneConn]
     /\ tally' =
          [handled |-> tally.handled + 1,
           singles |-> tally.singles +
             (IF WholeSingle(conns[c], thr[t].got) THEN 1 ELSE 0),
           invalid |-> tally.invalid +
             (IF NotJson(conns[c], thr[t].got) THEN 1 ELSE 0),
           zero |-> tally.zero +
             (IF ZeroBytes(conns[c], thr[t].got) THEN 1 ELSE 0)]

\* Variant of AddressInUse: several sockets may listen on the port.
AddressShared(t) == FALSE

\* bind() and listen() raise OSError (address in use) while another socket
\* listens on the port; SO_REUSEADDR does not lift that.
AddressInUse(t) == port # {}

\* lines 34-38: the thread dies of the OSError, or listens
Listen(t) ==
  /\ thr[t].pc = "bind"
  /\ IF AddressInUse(t)
       THEN thr' = [thr EXCEPT ![t].pc = "dead"] /\ port' = port
       ELSE thr' = [thr EXCEPT ![t].pc = "accept"] /\ port' = port \cup {t}
  /\ UNCHANGED <<file, backlog, nthreads, conns, sess, nruns, file0, wipes,
                 purged, mergedTotal, tally>>

\* lines 41-44: accept() returns the oldest established connection; D is
\* what its producer may do
Accept(t, D) ==
  /\ thr[t].pc = "accept"
  /\ t \in port
  /\ backlog # <<>>
  /\ thr' = [thr EXCEPT ![t].pc = "recv", ![t].conn = Head(backlog), ![t].got = 0]
  /\ backlog' = Tail(backlog)
  /\ \E d \in D : conns' = [conns EXCEPT ![Head(backlog)] = d]
  /\ UNCHANGED <<file, port, nthreads, sess, nruns, file0, wipes, purged,
                 mergedTotal, tally>>

\* lines 46-49: recv() returns bytes that have arrived (up to 8192 of them)
RecvData(t) ==
  /\ thr[t].pc = "recv"
  /\ \E n \in (thr[t].got + 1)..conns[thr[t].conn].sent :
       thr' = [thr EXCEPT ![t].got = n]
  /\ UNCHANGED <<file, port, backlog, nthreads, conns, sess, nruns, file0,
                 wipes, purged, mergedTotal, tally>>

\* lines 46-48 and 51-68: recv() returns b"" (the peer closed and all its
\* bytes were read), the read loop breaks and the buffer is decoded.
RecvEof(t) ==
  /\ thr[t].pc = "recv"
  /\ conns[thr[t].conn].st = "closed"
  /\ conns[thr[t].conn].sent = thr[t].got
  /\ LET d == Decode(conns[thr[t].conn].kind, thr[t].conn, thr[t].got)
     IN IF d.res = "batch"
          THEN /\ thr' = [thr EXCEPT ![t].pc = "load", ![t].new_data = d.batch]
               /\ UNCHANGED <<conns, tally>>
          ELSE Finish(t, d.res)
  /\ UNCHANGED <<file, port, backlog, nthreads, sess, nruns, file0, wipes,
                 purged, mergedTotal>>

\* lines 46 and 89-90: recv() raises (connection reset); the exception is
\* caught by the outer handler and the buffer is dropped.
RecvError(t) ==
  /\ thr[t].pc = "recv"
  /\ conns[thr[t].conn].st = "reset"
  /\ Finish(t, "aborted")
  /\ UNCHANGED <<file, port, backlog, nthreads, sess, nruns, file0, wipes,
                 purged, mergedTotal>>

\* lines 71-81: load the history (json.JSONDecodeError when the file does not
\* hold a whole document: line 87), prepend the batch and truncate.
Load(t) ==
  /\ thr[t].pc = "load"
  /\ IF file.st = "absent" \/ Loadable(file)
       THEN /\ thr' = [thr EXCEPT ![t].pc = "open",
                                  ![t].history = Merge(thr[t].new_data, file.content)]
            /\ UNCHANGED <<conns, tally>>
       ELSE Finish(t, "loadfailed")
  /\ UNCHANGED <<file, port, backlog, nthreads, sess, nruns, file0, wipes,
                 purged, mergedTotal>>

\* line 84: open(history_file, "w")
OpenW(t) ==
  /\ thr[t].pc = "open"
  /\ file' = OpenForWrite(file)
  /\ thr' = [thr EXCEPT ![t].pc = "dump", ![t].off = 0]
  /\ UNCHANGED <<port, backlog, nthreads, conns, sess, nruns, file0, wipes,
                 purged, mergedTotal, tally>>

\* line 85: json.dump fills the write buffer and part of the text is flushed
DumpFlush(t) ==
  /\ thr[t].pc = "dump"
  /\ thr[t].off = 0
  /\ \E k \in PrefixLens(thr[t].history) :
       /\ file' = FlushPrefix(file, thr[t].history, k, t)
       /\ thr' = [thr EXCEPT ![t].off = k]
  /\ UNCHANGED <<port, backlog, nthreads, conns, sess, nruns, file0, wipes,
                 purged, mergedTotal, tally>>

\* line 85 and the end of the with-block: the rest is written, the file closed
DumpFinish(t) ==
  /\ thr[t].pc = "dump"
  /\ file' = WriteRest(file, thr[t].history, thr[t].off, t)
  /\ mergedTotal' = mergedTotal + Len(thr[t].new_data)
  /\ Finish(t, "merged")
  /\ UNCHANGED <<port, backlog, nthreads, sess, nruns, file0, wipes, purged>>

\* line 84 and 89-90: open(history_file, "w") raises OSError (permission
\* denied); the file is not touched, the exception is caught by the outer
\* handler and the batch is dropped
OpenFail(t) ==
  /\ thr[t].pc = "open"
  /\ Finish(t, "openfailed")
  /\ UNCHANGED <<file, port, backlog, nthreads, sess, nruns, file0, wipes,
                 purged, mergedTotal>>

\* line 85 and 89-90: the write or the close raises OSError (disk full) after
\* open() has truncated the file; the file keeps what was flushed so far, the
\* exception is caught by the outer handler
DumpFail(t) ==
  /\ thr[t].pc = "dump"
  /\ Finish(t, "writefailed")
  /\ UNCHANGED <<file, port, backlog, nthreads, sess, nruns, file0, wipes,
                 purged, mergedTotal>>

\* the steps of a thread whose writes may fail
WriteFailure(t) == OpenFail(t) \/ DumpFail(t)

ThreadStep(t, D) ==
  \/ Listen(t) \/ Accept(t, D) \/ RecvData(t) \/ RecvEof(t) \/ RecvError(t)
  \/ Load(t) \/ OpenW(t) \/ DumpFlush(t) \/ DumpFinish(t)

\* ------------------------------------------------------------- script runs
Buttons == {"none", "start", "stop", "reset"}

\* line 94: threading.Thread(target=dashboard_listener, daemon=True).start()
StartThread ==
  /\ thr' = [thr EXCEPT ![nthreads + 1].pc = "bind"]
  /\ nthreads' = nthreads + 1

\* lines 100-106: the value of server_active after the Start and Stop buttons
ServerActive(b, active) ==
  IF b = "start" THEN TRUE ELSE IF b = "stop" THEN FALSE ELSE active

\* where a run goes after line 94: to the Reset handler or to the display
AfterButtons(b) == IF b = "reset" THEN "reset" ELSE "display"

\* lines 17-27, 94, 100-106: a script run of session s starts (first load,
\* auto-refresh, or a button press on a page that was rendered before).  When
\* the history file exists the run starts its listener thread and handles
\* Start and Stop.  Sessions are numbered in the order of their first run.
\* n: the script runs that are followed.
ScriptRun(s, n) ==
  /\ sess[s].pc = "idle"
  /\ nruns < n
  /\ \A r \in Sessions : r < s => sess[r].seen \/ sess[r].pc # "idle"
  /\ nruns' = nruns + 1
  /\ \E b \in Buttons :
       /\ b # "none" => sess[s].seen
       /\ IF file.st = "absent"
            THEN /\ sess' = [sess EXCEPT ![s].pc = "create", ![s].view = "none"]
                 /\ UNCHANGED <<thr, nthreads>>
            ELSE /\ sess' = [sess EXCEPT
                     ![s].pc = AfterButtons(b),
                     ![s].view = "none",
                     ![s].server_active = ServerActive(b, sess[s].server_active)]
                 /\ StartThread
  /\ UNCHANGED <<file, port, backlog, conns, file0, wipes, purged, mergedTotal,
                 tally>>

\* line 28: open(history_file, "w")
InitOpen(s) ==
  /\ sess[s].pc = "create"
  /\ file' = OpenForWrite(file)
  /\ sess' = [sess EXCEPT ![s].pc = "create_dump"]
  /\ wipes' = wipes + 1
  /\ UNCHANGED <<port, backlog, thr, nthreads, conns, nruns, file0, purged,
                 mergedTotal, tally>>

\* line 29 (json.dump([], f) and close), then line 94; a run that has to
\* create the file is the first run of its session: no button was pressed
InitDump(s) ==
  /\ sess[s].pc = "create_dump"
  /\ file' = WriteRest(file, <<>>, 0, 0)
  /\ sess' = [sess EXCEPT ![s].pc = "display"]
  /\ StartThread
  /\ UNCHANGED <<port, backlog, conns, nruns, file0, wipes, purged,
                 mergedTotal, tally>>

\* lines 108-109: Reset Data pressed: open(history_file, "w")
ResetOpen(s) ==
  /\ sess[s].pc = "reset"
  /\ file' = OpenForWrite(file)
  /\ sess' = [sess EXCEPT ![s].pc = "reset_dump"]
  /\ wipes' = wipes + 1
  /\ purged' = purged \cup Producers(file.content)
  /\ UNCHANGED <<port, backlog, thr, nthreads, conns, nruns, file0,
                 mergedTotal, tally>>

\* lines 110-112: json.dump([], f), close, cleared = True
ResetDump(s) ==
  /\ sess[s].pc = "reset_dump"
  /\ file' = WriteRest(file, <<>>, 0, 0)
  /\ sess' = [sess EXCEPT ![s].cleared = TRUE, ![s].pc = "display"]
  /\ UNCHANGED <<port, backlog, thr, nthreads, conns, nruns, file0, wipes,
                 purged, mergedTotal, tally>>

\* Variant of Gate: the display does not look at cleared.
GateIgnoresCleared(ss) == ss.server_active

\* Variant of Gate: the display does not look at server_active.
GateIgnoresFlag(ss) == ~ss.cleared

\* line 176: the display gate
Gate(ss) == ss.server_active /\ ~ss.cleared

\* lines 178-187: the snapshot read of file f: the loaded history, flattened
Snapshot(f) == Flatten(f.content)

\* lines 176-187 and 519-525: the display.  view: "data" (the snapshot was
\* read), "loaderror" (the read or json.load raised), "cleared", "inactive".
Display(s) ==
  /\ sess[s].pc = "display"
  /\ sess' =
       [sess EXCEPT
          ![s].pc = "idle",
          ![s].seen = TRUE,
          ![s].view =
            IF Gate(sess[s])
              THEN IF Loadable(file) THEN "data" ELSE "loaderror"
            ELSE IF sess[s].cleared THEN "cleared"
            ELSE "inactive"]
  /\ UNCHANGED <<file, port, backlog, thr, nthreads, conns, nruns, file0,
                 wipes, purged, mergedTotal, tally>>

\* lines 29 and 110: json.dump([], f) or the close raises OSError after
\* open() has truncated the file; nothing catches it: the script run ends
\* there (before line 94, or before cleared is set and before the display)
\* and the page shows the exception.
ScriptWriteFail(s) ==
  /\ sess[s].pc \in {"create_dump", "reset_dump"}
  /\ sess' = [sess EXCEPT ![s].pc = "idle",
                          ![s].seen = sess[s].seen \/ sess[s].pc = "reset_dump",
                          ![s].view = "exception"]
  /\ UNCHANGED <<file, port, backlog, thr, nthreads, conns, nruns, file0,
                 wipes, purged, mergedTotal, tally>>

ScriptStart(s) == ScriptRun(s, MaxRuns)

SessionStep(s) ==
  \/ ScriptStart(s) \/ InitOpen(s) \/ InitDump(s) \/ ResetOpen(s)
  \/ ResetDump(s) \/ Display(s)

ProducerStep(c) == Connect(c)

NextOf(D) ==
  \/ \E t \in Threads : ThreadStep(t, D)
  \/ \E s \in Sessions : SessionStep(s)
  \/ \E c \in Conns : ProducerStep(c)

\* Small payloads, any file of an earlier run.
SmallKinds == DocKinds \ {"big", "wdobj", "mixed"}
Next == NextOf(Deliveries(SmallKinds))
Init == InitOf(InitFileNames)
Spec == Init /\ [][Next]_vars

\* Histories at the capacity: no file or an empty file, and producers that
\* write one record or a large batch and close, or whose connection is reset
\* before they wrote.
CapKinds == {"single", "big"}
CapFiles == {"absent", "empty"}
CapDeliveries ==
  Whole(CapKinds) \cup {[st |-> "reset", kind |-> "none", sent |-> 0]}
NextCap == NextOf(CapDeliveries)
SpecCap == InitOf(CapFiles) /\ [][NextCap]_vars

\* The listener threads are scheduled fairly: a thread that can take a step
\* takes one.  Nothing is assumed of the producers or the users.  No file at
\* the start, and producers that write one record and close or hang, hang
\* before they wrote, or whose connection is reset before they wrote.
FairDeliveries ==
  Whole({"single"})
    \cup {[st |-> "stalled", kind |-> "single", sent |-> NumChunks],
          [st |-> "stalled", kind |-> "none", sent |-> 0],
          [st |-> "reset", kind |-> "none", sent |-> 0]}
NextFair == NextOf(FairDeliveries)
FairSpec ==
  /\ InitOf({"absent"})
  /\ [][NextFair]_vars
  /\ \A t \in Threads : WF_vars(ThreadStep(t, FairDeliveries))

\* Producers that write one record and close, or whose connection is reset
\* before they wrote.
PlainDeliveries ==
  Whole({"single"}) \cup {[st |-> "reset", kind |-> "none", sent |-> 0]}

\* Writes that fail: a file of an earlier run or none, and writes of the
\* history that raise OSError.
FailFiles == {"absent", "legacy"}
NextFail ==
  \/ NextOf(PlainDeliveries)
  \/ \E t \in Threads : WriteFailure(t)
  \/ \E s \in Sessions : ScriptWriteFail(s)
SpecFail == InitOf(FailFiles) /\ [][NextFail]_vars

\* The buttons followed over more script runs: no file at the start.
SessionStepOf(s, n) ==
  \/ ScriptRun(s, n) \/ InitOpen(s) \/ InitDump(s) \/ ResetOpen(s)
  \/ ResetDump(s) \/ Display(s)
NextButtons ==
  \/ \E t \in Threads : ThreadStep(t, PlainDeliveries)
  \/ \E s \in Sessions : SessionStepOf(s, LongRuns)
  \/ \E c \in Conns : ProducerStep(c)
SpecButtons == InitOf({"absent"}) /\ [][NextButtons]_vars

\* The shapes of payloads: no file or an empty one, producers that write a
\* payload of one of the shapes and close, or whose connection is reset
\* before they wrote.
ShapeKinds == {"single", "list3", "wdnested", "wdobj", "mixed"}
ShapeDeliveries ==
  Whole(ShapeKinds) \cup {[st |-> "reset", kind |-> "none", sent |-> 0]}
NextShape == NextOf(ShapeDeliveries)
SpecShape == InitOf({"absent", "empty"}) /\ [][NextShape]_vars

TypeOK ==
  /\ file.st \in {"absent", "complete", "truncated", "partial", "garbage"}
  /\ nthreads \in 0..LongRuns
  /\ port \subseteq Threads

\* -------------------------------------------------------------------- claims
\* no handler is between its read of the history and the end of its write
NoMergeInFlight == \A t \in Threads : thr[t].pc \notin {"open", "dump"}
\* no Reset handler is between its truncation of the file and its return
NoResetInFlight == \A s \in Sessions : sess[s].pc # "reset_dump"
\* every connection made so far has been handled to the end
AllHandled == \A c \in Conns : conns[c].st \in {"none", "done"}
\* the history was empty at the start and no script run has emptied it since
StartedEmptyNoWipe == file0 = "empty" /\ wipes = 0

\* C1: when a reset has emptied the history between a merge's read and its
\* write, then once no merge and no reset is in progress the persisted
\* history holds no record that was in it before the reset, and a snapshot
\* taken when no reset is in progress shows no such record.
C1_ResetNotUndone ==
  /\ (NoMergeInFlight /\ NoResetInFlight /\ Loadable(file))
       => Producers(file.content) \cap purged = {}
  /\ \A s \in Sessions :
       (sess[s].pc = "display" /\ Gate(sess[s]) /\ NoResetInFlight /\ Loadable(file))
         => {ProducerOf(Snapshot(file)[i]) : i \in DOMAIN Snapshot(file)} \cap purged = {}

\* C2: K producer connections that each deliver one valid single-record
\* payload against an initially empty history, with no reset: once all are
\* handled the persisted history holds exactly K records, one of each
\* producer.
C2_ConcurrentMergeSafety ==
  (StartedEmptyNoWipe /\ AllHandled /\ tally.handled >= 1
     /\ tally.singles = tally.handled)
    => /\ Loadable(file)
       /\ Len(file.content) = tally.handled
       /\ {file.content[i] : i \in DOMAIN file.content}
            = {Rid(c, 1) : c \in 1..tally.handled}

C2_Witness ==
  /\ StartedEmptyNoWipe /\ AllHandled
  /\ tally.singles = MaxConns /\ tally.handled = MaxConns
  /\ Len(file.content) = MaxConns

\* C3: a snapshot read never finds a truncated or partially written file:
\* the display never shows a load error.
C3_SnapshotIsolation == \A s \in Sessions : sess[s].view # "loaderror"

\* C4: starting from an empty history, with no reset, after each merge the
\* persisted history has min(records merged so far, 1000) elements.
C4_CapacityInvariant ==
  (StartedEmptyNoWipe /\ Loadable(file))
    => Len(file.content) = Min(mergedTotal, Capacity)

C4_Witness ==
  /\ StartedEmptyNoWipe /\ Loadable(file)
  /\ mergedTotal > Capacity
  /\ Len(file.content) = Capacity

\* W is the first 1000 elements of N followed by H, element by element
IsMergeOf(W, N, H) ==
  /\ Len(W) = Min(Len(N) + Len(H), Capacity)
  /\ \A i \in 1..Len(W) : W[i] = IF i <= Len(N) THEN N[i] ELSE H[i - Len(N)]

\* one record merged into a full history: the new record is first, every
\* other record has moved down by one, the last one is gone
IsEviction(W, N, H) ==
  (Len(N) = 1 /\ Len(H) = Capacity)
    => /\ Len(W) = Capacity
       /\ W[1] = N[1]
       /\ \A i \in 1..(Capacity - 1) : W[i + 1] = H[i]
       /\ \A i \in 1..Capacity : W[i] # H[Capacity]

\* C5: the history a merge computes from the batch N and the history H it
\* has read is the first 1000 elements of N followed by H, and that is what
\* its write leaves in the file (unless a script run has truncated the file
\* and its bytes got mixed with the merge's).
C5_MergeResult ==
  [][\A t \in Threads :
       /\ (thr[t].pc = "load" /\ thr'[t].pc = "open")
            => /\ IsMergeOf(thr'[t].history, thr[t].new_data, file.content)
               /\ IsEviction(thr'[t].history, thr[t].new_data, file.content)
       /\ (thr[t].pc = "dump" /\ thr'[t].pc = "accept")
            => \/ file' = CompleteFile(thr[t].history)
               \/ file'.st = "garbage" /\ wipes > 0]_vars

C5_Witness ==
  \E t \in Threads :
    /\ thr[t].pc = "open"
    /\ Loadable(file) /\ Len(file.content) = Capacity
    /\ Len(thr[t].new_data) = 1
    /\ Len(thr[t].history) = Capacity
    /\ thr[t].history[1] = thr[t].new_data[1]
    /\ thr[t].history[Capacity] = file.content[Capacity - 1]

\* the read loop of thread t ends in this step because the peer has closed
EofStep(t) ==
  /\ thr[t].pc = "recv" /\ thr'[t].pc # "recv"
  /\ conns[thr[t].conn].st = "closed"

\* C6: a connection that delivers {"well_data": [[r1, r2], r3]} is handled
\* as one that delivers [r1, r2, r3]: the batch r1, r2, r3 goes on to the
\* merge.
C6_FlattenAtIngestion ==
  [][\A t \in Threads :
       (EofStep(t) /\ conns[thr[t].conn].kind = "wdnested"
          /\ thr[t].got = NumChunks)
         => /\ thr'[t].pc = "load"
            /\ thr'[t].new_data = Decode("list3", thr[t].conn, NumChunks).batch]_vars

\* the records of history h are the first records of distinct producers
\* among the first n
SinglesOf(h, n) ==
  /\ \A i \in DOMAIN h : ProducerOf(h[i]) \in 1..n /\ h[i] = Rid(ProducerOf(h[i]), 1)
  /\ \A i, j \in DOMAIN h : h[i] = h[j] => i = j

\* C7: a connection that delivers bytes that are not valid JSON changes
\* nothing but its own end: the file, the listening socket, the waiting
\* connections stay as they were and the thread is back at accept(); and
\* when such connections and connections with one valid record were handled
\* against a history that started empty, the history holds exactly the valid
\* ones' records.
C7_DecodeFailureIsolation ==
  [][/\ \A t \in Threads :
          (EofStep(t) /\ NotJson(conns[thr[t].conn], thr[t].got))
            => /\ file' = file /\ port' = port /\ backlog' = backlog
               /\ t \in port'
               /\ thr'[t] = [NewThread EXCEPT !.pc = "accept"]
               /\ conns'[thr[t].conn] = DoneConn
     /\ (StartedEmptyNoWipe /\ AllHandled
           /\ tally.handled = tally.singles + tally.invalid)'
          => (/\ Loadable(file)
              /\ Len(file.content) = tally.singles
              /\ SinglesOf(file.content, tally.handled))']_vars

\* the first connection delivered invalid bytes, the second a valid record
C7_Witness ==
  /\ StartedEmptyNoWipe /\ AllHandled
  /\ tally = [handled |-> 2, singles |-> 1, invalid |-> 1, zero |-> 0]
  /\ Loadable(file) /\ file.content = <<Rid(2, 1)>>

\* C8: a connection that waits to be accepted is eventually accepted,
\* whatever the peers of the other connections do (what the peer of a
\* waiting connection has sent is not seen before accept(): the property is
\* that of every waiting connection, one whose peer has sent a valid payload
\* and closed included).
C8_ConnectionIndependence ==
  \A c \in Conns : (conns[c].st = "queued") ~> (conns[c].st # "queued")

\* C9: the read phase of an accepted connection eventually ends.
C9_BoundedRead ==
  \A t \in Threads : (thr[t].pc = "recv") ~> (thr[t].pc # "recv")

\* C10: when the read of a connection fails with a transport error after a
\* whole valid record was received, the record goes on to the merge.
C10_TransportError ==
  [][\A t \in Threads :
       (/\ thr[t].pc = "recv" /\ thr'[t].pc # "recv"
        /\ conns[thr[t].conn].st = "reset"
        /\ conns[thr[t].conn].kind = "single"
        /\ thr[t].got = NumChunks)
         => /\ thr'[t].pc = "load"
            /\ thr'[t].new_data = <<Rid(thr[t].conn, 1)>>]_vars

\* C11: when the write of a merge or of a reset fails, the file afterwards
\* holds a whole history: for a merge the one the handler had read, for a
\* reset not a truncated or partial one.  (With one record per connection a
\* handler that ends after its open without adding to the records written
\* is one whose write failed; a script run that ends between the Reset
\* handler's open and its return is one whose write failed.)
C11_LastKnownGood ==
  [][/\ \A t \in Threads :
          (thr[t].pc = "dump" /\ thr'[t].pc = "accept"
             /\ mergedTotal' = mergedTotal)
            => /\ Loadable(file')
               /\ thr[t].history = Merge(thr[t].new_data, file'.content)
     /\ \A s \in Sessions :
          (sess[s].pc = "reset_dump" /\ sess'[s].pc = "idle")
            => Loadable(file')]_vars

\* the number of a record among the records of its producer
RecordNo(e) == e \div (MaxConns + 1)

\* h holds the batches of later connections before those of earlier ones,
\* and each batch in its incoming order from its first record on
NewestFirst(h) ==
  \A i \in DOMAIN h :
    /\ ProducerOf(h[i]) \in Conns
    /\ IF i = 1
         THEN RecordNo(h[i]) = 1
         ELSE IF ProducerOf(h[i]) = ProducerOf(h[i - 1])
           THEN RecordNo(h[i]) = RecordNo(h[i - 1]) + 1
           ELSE ProducerOf(h[i]) < ProducerOf(h[i - 1]) /\ RecordNo(h[i]) = 1

\* C12: valid payloads delivered one per connection against a history that
\* started empty, with no reset: the snapshot is the persisted history, it
\* holds the batches in reverse order of arrival, each in its incoming
\* order, and as many records as were merged (up to the capacity).
C12_NewestFirst ==
  (StartedEmptyNoWipe /\ Loadable(file))
    => /\ Snapshot(file) = file.content
       /\ NewestFirst(Snapshot(file))
       /\ Len(Snapshot(file)) = Min(mergedTotal, Capacity)

\* a one-record connection followed by a three-record connection
C12_Witness ==
  /\ StartedEmptyNoWipe /\ Loadable(file) /\ AllHandled
  /\ tally.singles = 1 /\ tally.handled = 2
  /\ Snapshot(file) = <<Rid(2, 1), Rid(2, 2), Rid(2, 3), Rid(1, 1)>>

\* C13: server_active gates the display only.  A script run's start, with
\* whichever button pressed, leaves the file, the listening socket, the
\* connections and every started thread as they were; while no session is
\* active a handler merges and writes as ever; and a display shows the
\* history (or fails to load it) only in a session that is active.
C13_ActiveFlagDisplayOnly ==
  [][/\ (nruns' # nruns)
          => /\ file' = file /\ port' = port
             /\ backlog' = backlog /\ conns' = conns
             /\ \A t \in Threads : thr[t].pc # "unborn" => thr'[t] = thr[t]
     /\ \A t \in Threads :
          (\A s \in Sessions : ~sess[s].server_active)
            => /\ (thr[t].pc = "load" /\ thr'[t].pc = "open")
                    => thr'[t].history = Merge(thr[t].new_data, file.content)
               /\ (thr[t].pc = "dump" /\ thr'[t].pc = "accept")
                    => \/ file' = CompleteFile(thr[t].history)
                       \/ file'.st = "garbage" /\ wipes > 0
     /\ \A s \in Sessions :
          sess'[s].view \in {"data", "loaderror"} => sess'[s].server_active]_vars

\* Start was pressed in one session, another has displayed and is not
\* active; the listener is in its accept loop and has merged a record
C13_Witness ==
  /\ \E s, r \in Sessions :
       /\ sess[s].server_active
       /\ ~sess[r].server_active /\ sess[r].view = "inactive"
  /\ \E t \in Threads : t \in port /\ thr[t].pc = "accept"
  /\ Loadable(file) /\ file.content # <<>>

\* C14: a connection that delivers an object whose well_data value is not
\* a sequence (here: an object) is handled as one that delivers one record:
\* a batch of one element goes on to the merge.
C14_ShapeResolution ==
  [][\A t \in Threads :
       (EofStep(t) /\ conns[thr[t].conn].kind = "wdobj"
          /\ thr[t].got = NumChunks)
         => /\ thr'[t].pc = "load"
            /\ Len(thr'[t].new_data) = 1]_vars

\* C15: a connection whose peer closes without sending a byte: the handler
\* skips the decoding (no error is raised or printed), the file, the
\* listening socket and the waiting connections stay as they were, and the
\* thread is back at accept().
C15_ZeroByteNoOp ==
  [][\A t \in Threads :
       (EofStep(t) /\ thr[t].got = 0)
         => /\ Decode(conns[thr[t].conn].kind, thr[t].conn, 0).res = "empty"
            /\ file' = file /\ port' = port /\ backlog' = backlog
            /\ t \in port'
            /\ thr'[t] = [NewThread EXCEPT !.pc = "accept"]
            /\ conns'[thr[t].conn] = DoneConn
            /\ tally'.invalid = tally.invalid
            /\ tally'.zero = tally.zero + 1]_vars

\* the first connection was closed without a byte, the second was merged
C15_Witness ==
  /\ StartedEmptyNoWipe /\ AllHandled
  /\ tally = [handled |-> 2, singles |-> 1, invalid |-> 0, zero |-> 1]
  /\ Loadable(file) /\ file.content = <<Rid(2, 1)>>

\* payloads that hold a record list with an element that is not an object
BadElementKinds == {"wdnested", "mixed"}

\* C16: a handler commits the whole batch or nothing.  A payload whose record
\* list has an element that is not a JSON object is rejected whole; a batch
\* that goes on to the merge is the whole decoded record list; a handler
\* that ends before its write leaves the file as it is; the history computed
\* is the first 1000 of the batch followed by the history read, and a handler
\* that ends after its write leaves exactly that in the file (unless a script
\* run has truncated the file and its bytes got mixed with the handler's).
C16_AllOrNothing ==
  [][\A t \in Threads :
       /\ (EofStep(t) /\ conns[thr[t].conn].kind \in BadElementKinds)
            => thr'[t].pc = "accept" /\ file' = file
       /\ (EofStep(t) /\ thr'[t].pc = "load")
            => \/ /\ conns[thr[t].conn].kind = "single"
                  /\ thr'[t].new_data = Batch(thr[t].conn, 1)
               \/ /\ conns[thr[t].conn].kind = "list3"
                  /\ thr'[t].new_data = Batch(thr[t].conn, 3)
       /\ (thr[t].pc \in {"recv", "load"} /\ thr'[t].pc = "accept")
            => file' = file
       /\ (thr[t].pc = "load" /\ thr'[t].pc = "open")
            => IsMergeOf(thr'[t].history, thr[t].new_data, file.content)
       /\ (thr[t].pc = "dump" /\ thr'[t].pc = "accept")
            => \/ file' = CompleteFile(thr[t].history)
               \/ file'.st = "garbage" /\ wipes > 0]_vars

\* the first connection was rejected or reset, the second delivered three
\* records: all three are in the file, and nothing of the first
C16_Witness ==
  /\ file0 = "empty" /\ wipes = 0 /\ AllHandled
  /\ tally.handled = 2
  /\ Loadable(file) /\ file.content = Batch(2, 3)

\* C17: whenever the file holds a whole history (every write of a merge, of
\* a reset or of the creation that has completed), it holds at most 1000
\* elements.
C17_UpperBound == Loadable(file) => Len(file.content) <= Capacity

\* after a reset, more than 1000 records were merged and the file is full
C17_Witness ==
  /\ file0 = "empty" /\ wipes >= 1
  /\ mergedTotal > Capacity
  /\ Loadable(file) /\ Len(file.content) = Capacity

\* C18: cleared is sticky.  No step sets it back to false, the Reset handler
\* sets it when it returns, and a session in which it is set displays
\* nothing but the notice that the data was cleared (it does not read the
\* history), whatever its server_active and whatever the file holds.
C18_ClearedSticky ==
  [][\A s \in Sessions :
       /\ sess[s].cleared => sess'[s].cleared
       /\ (sess[s].pc = "reset_dump" /\ sess'[s].pc = "display")
            => sess'[s].cleared
       /\ sess'[s].cleared => sess'[s].view \in {"none", "cleared"}]_vars

\* a session in which Reset and Start were pressed has displayed the notice
\* while the file holds records merged since
C18_Witness ==
  \E s \in Sessions :
    /\ sess[s].cleared /\ sess[s].server_active
    /\ sess[s].pc = "idle" /\ sess[s].view = "cleared"
    /\ Loadable(file) /\ file.content # <<>>

\* the threads in the accept loop (lines 40-90), and those in a merge
InLoop == {t \in Threads : thr[t].pc \in {"accept", "recv", "load", "open", "dump"}}
InMerge == {t \in Threads : thr[t].pc \in {"load", "open", "dump"}}

\* C19: at most one thread listens and is in the accept loop, that thread
\* is the one that holds the port, and at most one merge is in progress.
C19_SingleListener ==
  /\ Cardinality(port) <= 1
  /\ Cardinality(InLoop) <= 1
  /\ InLoop \subseteq port
  /\ Cardinality(InMerge) <= 1

\* a later run's thread has died of its bind while the listener is merging
C19_Witness ==
  \E t, u \in Threads :
    /\ thr[u].pc = "dead"
    /\ t \in port /\ thr[t].pc = "dump"
====
